---- MODULE Spec2Model ----
(***************************************************************************)
(* Refund decision engine (LLMDecisionEngine, MermaidDecisionTree).        *)
(*                                                                         *)
(* The engine keeps a customer profile (customer_data), the facts taken    *)
(* from the conversation (extracted_info), the conversation history and    *)
(* the last navigation result.  A turn appends the utterance, runs the     *)
(* extraction (remote extractor, or the keyword fallback when it fails),   *)
(* then the navigation, and returns NEED_INFO, DECISION or ERROR.          *)
(*                                                                         *)
(* The navigation procedure is the text of the navigation prompt: the      *)
(* list of immediate terminal conditions and the numbered steps 1..18.     *)
(* The two disagree on some inputs; a navigator that answers the prompt    *)
(* may follow either, so the model keeps both readings.  A reply of the    *)
(* navigator that is not JSON goes through the keyword scan of             *)
(* _parse_navigation_response, a failed call gives ERROR.                  *)
(***************************************************************************)
EXTENDS Integers, Sequences, FiniteSets, TLC

VARIABLES
    customer_data,            \* self.customer_data: the profile
    extracted_info,           \* self.extracted_info: slot -> value
    conversation_history,     \* self.conversation_history: the utterances
    current_state,            \* self.current_state
    last_navigation_result,   \* self._last_navigation_result
    turn_result,              \* what the last turn returned to its caller
    pc,                       \* where the running turn stands ("idle": none)
    extractor_reply,          \* the extractor's reply, until the navigation returns
    export_returned,          \* what the last export_conversation returned
    other                     \* a second engine of the process, while the
                              \* first one runs (SpecSessions)

vars == <<customer_data, extracted_info, conversation_history, current_state,
          last_navigation_result, turn_result, pc, extractor_reply,
          export_returned, other>>

(***************************************************************************)
(* Bounds of the model.                                                    *)
(***************************************************************************)
\* Turns of one conversation (length of conversation_history) in Spec.
MaxTurns == 2
\* Stored slots in SpecDecide.
MaxStored == 2
\* Stored slots that the step walk does not read, in SpecWalk.
MaxOffPath == 1

(***************************************************************************)
(* Dictionaries: a dict is a function whose domain is its key set.         *)
(***************************************************************************)
EmptyDict == [k \in {} |-> ""]

\* dict.get(k, default)
GetOr(d, k, default) == IF k \in DOMAIN d THEN d[k] ELSE default

\* dict.get(k, 'MISSING'), as the navigation prompt reads every field
Get(d, k) == GetOr(d, k, "MISSING")

\* d[k] = v
Put(d, k, v) == [x \in (DOMAIN d) \cup {k} |-> IF x = k THEN v ELSE d[x]]

(***************************************************************************)
(* MermaidDecisionTree: the keyword table, the nodes, the terminals.       *)
(***************************************************************************)
YesNo == {"Yes", "No"}

valid_keywords ==
    [k \in {"account_status", "loyalty_tier", "fraud_flag", "return_abuse",
            "item_category", "item_returnable", "item_condition",
            "return_window", "late_return_eligible", "delivered",
            "shipping_issue", "seller_type", "in_house_policy",
            "third_party_policy", "payment_method", "bnpl_policy",
            "gift_card_policy", "manual_review_outcome",
            "shipping_review_outcome"} |->
        CASE k = "account_status" -> {"good_standing", "not_good_standing"}
          [] k = "loyalty_tier" -> {"Bronze", "Silver", "Gold"}
          [] k = "item_category" -> {"Perishable", "Digital", "Physical"}
          [] k = "item_condition" -> {"damaged", "defective", "normal"}
          [] k = "return_window" -> {"within", "expired"}
          [] k = "shipping_issue" -> {"Lost", "Delayed", "Neither"}
          [] k = "seller_type" -> {"In-house", "Third-party"}
          [] k = "payment_method" -> {"BNPL", "CreditCard", "Prepaid", "GiftCard"}
          [] k \in {"manual_review_outcome", "shipping_review_outcome"} ->
                {"Approve", "Deny"}
          [] OTHER -> YesNo]

\* The four fields the navigation reads from customer_data.
ProfileFields == {"account_status", "loyalty_tier", "fraud_flag", "return_abuse"}

\* The decision node of the flowchart that asks for each conversation slot.
node_slot ==
    [n \in {"ItemCategory", "ItemEligible", "ItemCondition", "ReturnWindow",
            "ReturnLate", "Delivered", "ShippingIssue", "SellerType",
            "InHousePolicy", "ThirdPartyPolicy", "PaymentMethod",
            "BNPLPolicy", "GiftCardPolicy"} |->
        CASE n = "ItemCategory" -> "item_category"
          [] n = "ItemEligible" -> "item_returnable"
          [] n = "ItemCondition" -> "item_condition"
          [] n = "ReturnWindow" -> "return_window"
          [] n = "ReturnLate" -> "late_return_eligible"
          [] n = "Delivered" -> "delivered"
          [] n = "ShippingIssue" -> "shipping_issue"
          [] n = "SellerType" -> "seller_type"
          [] n = "InHousePolicy" -> "in_house_policy"
          [] n = "ThirdPartyPolicy" -> "third_party_policy"
          [] n = "PaymentMethod" -> "payment_method"
          [] n = "BNPLPolicy" -> "bnpl_policy"
          [] OTHER -> "gift_card_policy"]

decision_nodes ==
    {"CustStatus", "LoyaltyTier", "FraudCheck", "ReturnHistory"}
        \cup DOMAIN node_slot \cup {"FinalDecision1", "FinalDecision2"}

terminal_nodes ==
    {"RefundDenied1", "RefundDenied2", "RefundDenied3", "RefundDenied4",
     "RefundDenied5", "RefundDenied6", "RefundDenied7", "RefundDenied8",
     "RefundDenied9", "RefundDenied10", "RefundDenied11", "RefundDenied12",
     "RefundApproved", "RefundApprovedLost", "PartialRefund", "PartialRefund2",
     "ManualReview", "ManualReview2"}

(***************************************************************************)
(* The replies the navigation prompt asks for (RESPONSE FORMAT).           *)
(* decision_path and context carry the nodes walked, "Start" first.        *)
(***************************************************************************)
DecisionReply(t, path) ==
    [status |-> "DECISION", decision |-> t, reason |-> path[Len(path)],
     terminal_node |-> t, decision_path |-> Append(path, t)]

NeedInfoReply(field, path) ==
    [status |-> "NEED_INFO", stuck_at_node |-> path[Len(path)],
     missing_field |-> field, context |-> path]

\* A step that lists no branch for the value it reads.
NoBranchReply(path) ==
    [status |-> "NO_BRANCH", context |-> path]

(***************************************************************************)
(* STEP-BY-STEP NAVIGATION, steps 18 down to 1 (p: customer_data,          *)
(* s: extracted_info, path: the nodes walked so far).                      *)
(***************************************************************************)
\* Step 18 with the flowchart's edge (GiftCardPolicy -- No --> PartialRefund2)
\* in place of the denial: the variant that C17 must tell from Step18.
Step18PartialRefund(p, s, path) ==
    LET v == Get(s, "gift_card_policy")
        here == Append(path, "GiftCardPolicy")
    IN  IF v = "No" THEN DecisionReply("PartialRefund2", here)
        ELSE IF v = "Yes" THEN DecisionReply("RefundApproved", here)
        ELSE IF v = "MISSING" THEN NeedInfoReply("gift_card_policy", here)
        ELSE NoBranchReply(here)

Step18(p, s, path) ==
    LET v == Get(s, "gift_card_policy")
        here == Append(path, "GiftCardPolicy")
    IN  IF v = "No" THEN DecisionReply("RefundDenied11", here)
        ELSE IF v = "Yes" THEN DecisionReply("RefundApproved", here)
        ELSE IF v = "MISSING" THEN NeedInfoReply("gift_card_policy", here)
        ELSE NoBranchReply(here)

Step17(p, s, path) ==
    LET v == Get(s, "bnpl_policy")
        here == Append(path, "BNPLPolicy")
    IN  IF v = "No" THEN DecisionReply("RefundDenied10", here)
        ELSE IF v = "Yes" THEN DecisionReply("RefundApproved", here)
        ELSE IF v = "MISSING" THEN NeedInfoReply("bnpl_policy", here)
        ELSE NoBranchReply(here)

Step16(p, s, path) ==
    LET v == Get(s, "payment_method")
        here == Append(path, "PaymentMethod")
    IN  IF v = "BNPL" THEN Step17(p, s, here)
        ELSE IF v = "GiftCard" THEN Step18(p, s, here)
        ELSE IF v \in {"CreditCard", "Prepaid"}
             THEN DecisionReply("RefundApproved", here)
        ELSE IF v = "MISSING" THEN NeedInfoReply("payment_method", here)
        ELSE NoBranchReply(here)

Step15(p, s, path) ==
    LET v == Get(s, "third_party_policy")
        here == Append(path, "ThirdPartyPolicy")
    IN  IF v = "No" THEN DecisionReply("RefundDenied9", here)
        ELSE IF v = "Yes" THEN Step16(p, s, here)
        ELSE IF v = "MISSING" THEN NeedInfoReply("third_party_policy", here)
        ELSE NoBranchReply(here)

\* Step 14 that also consults the third-party policy: the variant that C15
\* must tell from Step14.
Step14ChecksBoth(p, s, path) ==
    LET v == Get(s, "in_house_policy")
        here == Append(path, "InHousePolicy")
    IN  IF v = "No" THEN DecisionReply("RefundDenied8", here)
        ELSE IF v = "Yes" THEN Step15(p, s, here)
        ELSE IF v = "MISSING" THEN NeedInfoReply("in_house_policy", here)
        ELSE NoBranchReply(here)

Step14(p, s, path) ==
    LET v == Get(s, "in_house_policy")
        here == Append(path, "InHousePolicy")
    IN  IF v = "No" THEN DecisionReply("RefundDenied8", here)
        ELSE IF v = "Yes" THEN Step16(p, s, here)
        ELSE IF v = "MISSING" THEN NeedInfoReply("in_house_policy", here)
        ELSE NoBranchReply(here)

Step13(p, s, path) ==
    LET v == Get(s, "seller_type")
        here == Append(path, "SellerType")
    IN  IF v = "In-house" THEN Step14(p, s, here)
        ELSE IF v = "Third-party" THEN Step15(p, s, here)
        ELSE IF v = "MISSING" THEN NeedInfoReply("seller_type", here)
        ELSE NoBranchReply(here)

\* Step 12 with the flowchart's onward edge of a delayed shipment
\* (ManualReview2 --> FinalDecision2) followed: the variant that C14 must
\* tell from Step12.
Step12ReviewOutcome(p, s, path) ==
    LET v == Get(s, "shipping_issue")
        here == Append(path, "ShippingIssue")
        review == Get(s, "shipping_review_outcome")
    IN  IF v = "Lost" THEN DecisionReply("RefundApprovedLost", here)
        ELSE IF v = "Delayed" THEN
            IF review = "Approve"
            THEN DecisionReply("RefundApproved", Append(here, "FinalDecision2"))
            ELSE IF review = "Deny"
            THEN DecisionReply("RefundDenied12", Append(here, "FinalDecision2"))
            ELSE NeedInfoReply("shipping_review_outcome",
                               Append(here, "FinalDecision2"))
        ELSE IF v = "Neither" THEN DecisionReply("RefundDenied7", here)
        ELSE IF v = "MISSING" THEN NeedInfoReply("shipping_issue", here)
        ELSE NoBranchReply(here)

Step12(p, s, path) ==
    LET v == Get(s, "shipping_issue")
        here == Append(path, "ShippingIssue")
    IN  IF v = "Lost" THEN DecisionReply("RefundApprovedLost", here)
        ELSE IF v = "Delayed" THEN DecisionReply("ManualReview2", here)
        ELSE IF v = "Neither" THEN DecisionReply("RefundDenied7", here)
        ELSE IF v = "MISSING" THEN NeedInfoReply("shipping_issue", here)
        ELSE NoBranchReply(here)

Step11(p, s, path) ==
    LET v == Get(s, "delivered")
        here == Append(path, "Delivered")
    IN  IF v = "No" THEN Step12(p, s, here)
        ELSE IF v = "Yes" THEN Step13(p, s, here)
        ELSE IF v = "MISSING" THEN NeedInfoReply("delivered", here)
        ELSE NoBranchReply(here)

\* Step 9 with a granted late return going on to the delivered check: the
\* variant that C13 must tell from Step9.
Step9YesContinues(p, s, path) ==
    LET v == Get(s, "late_return_eligible")
        here == Append(path, "ReturnLate")
    IN  IF v = "No" THEN DecisionReply("RefundDenied6", here)
        ELSE IF v = "Yes" THEN Step11(p, s, here)
        ELSE IF v = "MISSING" THEN NeedInfoReply("late_return_eligible", here)
        ELSE NoBranchReply(here)

Step9(p, s, path) ==
    LET v == Get(s, "late_return_eligible")
        here == Append(path, "ReturnLate")
    IN  IF v = "No" THEN DecisionReply("RefundDenied6", here)
        ELSE IF v = "Yes" THEN DecisionReply("PartialRefund", here)
        ELSE IF v = "MISSING" THEN NeedInfoReply("late_return_eligible", here)
        ELSE NoBranchReply(here)

Step8(p, s, path) ==
    LET v == Get(s, "return_window")
        here == Append(path, "ReturnWindow")
    IN  IF v = "expired" THEN Step9(p, s, here)
        ELSE IF v = "within" THEN Step11(p, s, here)
        ELSE IF v = "MISSING" THEN NeedInfoReply("return_window", here)
        ELSE NoBranchReply(here)

\* Step 7 with the flowchart's edge (ItemCondition -- Yes --> SellerType) in
\* place of the skip to the delivered check: the variant that C12 must tell
\* from Step7.
Step7ToSellerType(p, s, path) ==
    LET v == Get(s, "item_condition")
        here == Append(path, "ItemCondition")
    IN  IF v \in {"damaged", "defective"} THEN Step13(p, s, here)
        ELSE IF v = "normal" THEN Step8(p, s, here)
        ELSE IF v = "MISSING" THEN NeedInfoReply("item_condition", here)
        ELSE NoBranchReply(here)

Step7(p, s, path) ==
    LET v == Get(s, "item_condition")
        here == Append(path, "ItemCondition")
    IN  IF v \in {"damaged", "defective"} THEN Step11(p, s, here)
        ELSE IF v = "normal" THEN Step8(p, s, here)
        ELSE IF v = "MISSING" THEN NeedInfoReply("item_condition", here)
        ELSE NoBranchReply(here)

Step6(p, s, path) ==
    LET v == Get(s, "item_returnable")
        here == Append(path, "ItemEligible")
    IN  IF v = "No" THEN DecisionReply("RefundDenied5", here)
        ELSE IF v = "Yes" THEN Step7(p, s, here)
        ELSE IF v = "MISSING" THEN NeedInfoReply("item_returnable", here)
        ELSE NoBranchReply(here)

Step5(p, s, path) ==
    LET v == Get(s, "item_category")
        here == Append(path, "ItemCategory")
    IN  IF v = "Perishable" THEN DecisionReply("RefundDenied3", here)
        ELSE IF v = "Digital" THEN DecisionReply("RefundDenied4", here)
        ELSE IF v = "Physical" THEN Step6(p, s, here)
        ELSE IF v = "MISSING" THEN NeedInfoReply("item_category", here)
        ELSE NoBranchReply(here)

Step4(p, s, path) ==
    LET v == Get(p, "return_abuse")
        here == Append(path, "ReturnHistory")
    IN  IF v = "Yes" THEN DecisionReply("ManualReview", here)
        ELSE IF v = "No" THEN Step5(p, s, here)
        ELSE NoBranchReply(here)

Step3(p, s, path) ==
    LET v == Get(p, "fraud_flag")
        here == Append(path, "FraudCheck")
    IN  IF v = "Yes" THEN DecisionReply("RefundDenied2", here)
        ELSE IF v = "No" THEN Step4(p, s, here)
        ELSE NoBranchReply(here)

Step2(p, s, path) ==
    LET v == Get(p, "loyalty_tier")
        here == Append(path, "LoyaltyTier")
    IN  IF v \in {"Bronze", "Silver"} THEN Step4(p, s, here)
        ELSE IF v = "Gold" THEN Step3(p, s, here)
        ELSE NoBranchReply(here)

\* Step 1 with the fraud flag looked at before the account status: the
\* variant that the gate priority (C1) must tell from Step1.
Step1FraudFirst(p, s, path) ==
    LET v == Get(p, "account_status")
        here == Append(path, "CustStatus")
    IN  IF Get(p, "fraud_flag") = "Yes"
        THEN DecisionReply("RefundDenied2", Append(here, "FraudCheck"))
        ELSE IF v # "good_standing" THEN DecisionReply("RefundDenied1", here)
        ELSE Step2(p, s, here)

Step1(p, s, path) ==
    LET v == Get(p, "account_status")
        here == Append(path, "CustStatus")
    IN  IF v # "good_standing" THEN DecisionReply("RefundDenied1", here)
        ELSE Step2(p, s, here)

\* "Start from STEP 1 and work through each step"
StepByStep(p, s) == Step1(p, s, <<"Start">>)

(***************************************************************************)
(* IMMEDIATE TERMINAL CONDITIONS (Check these FIRST), in the listed order. *)
(* "none" when no condition holds.                                         *)
(***************************************************************************)
ImmediateTerminal(p, s) ==
    IF Get(p, "account_status") # "good_standing" THEN "RefundDenied1"
    ELSE IF Get(p, "fraud_flag") = "Yes" THEN "RefundDenied2"
    ELSE IF Get(p, "return_abuse") = "Yes" THEN "ManualReview"
    ELSE IF Get(s, "item_category") = "Perishable" THEN "RefundDenied3"
    ELSE IF Get(s, "item_category") = "Digital" THEN "RefundDenied4"
    ELSE IF Get(s, "item_returnable") = "No" THEN "RefundDenied5"
    ELSE "none"

\* The nodes whose condition the list has checked when terminal t fires.
ImmediatePath(t) ==
    CASE t = "RefundDenied1" -> <<"Start", "CustStatus">>
      [] t = "RefundDenied2" -> <<"Start", "CustStatus", "FraudCheck">>
      [] t = "ManualReview" ->
            <<"Start", "CustStatus", "FraudCheck", "ReturnHistory">>
      [] t \in {"RefundDenied3", "RefundDenied4"} ->
            <<"Start", "CustStatus", "FraudCheck", "ReturnHistory",
              "ItemCategory">>
      [] OTHER ->
            <<"Start", "CustStatus", "FraudCheck", "ReturnHistory",
              "ItemCategory", "ItemEligible">>

\* YOUR TASK: 1. first the immediate terminal conditions, 2.-3. else the
\* steps from STEP 1.  Where the list and the steps name the same terminal
\* the reply is the one of the step walk.
ImmediateFirst(p, s) ==
    LET t == ImmediateTerminal(p, s)
        walk == StepByStep(p, s)
    IN  IF t = "none" THEN walk
        ELSE IF walk.status = "DECISION" /\ walk.decision = t THEN walk
        ELSE DecisionReply(t, ImmediatePath(t))

\* The prompt shows the gate fields twice when the store holds an entry named
\* as one of them: in CUSTOMER DATA and in CURRENT EXTRACTED INFORMATION.
\* The steps bind their value ("Current:") to customer_data; the immediate
\* list names the field only.  ExtractedOverCustomer is the profile as the
\* list reads it when it takes the extracted entry.
ExtractedOverCustomer(p, s) ==
    [k \in (DOMAIN p) \cup (ProfileFields \cap DOMAIN s) |->
        IF k \in ProfileFields \cap DOMAIN s THEN s[k] ELSE p[k]]

\* ImmediateFirst with the list read on the extracted entries.
ImmediateOnExtracted(p, s) ==
    LET t == ImmediateTerminal(ExtractedOverCustomer(p, s), s)
        walk == StepByStep(p, s)
    IN  IF t = "none" THEN walk
        ELSE IF walk.status = "DECISION" /\ walk.decision = t THEN walk
        ELSE DecisionReply(t, ImmediatePath(t))

\* The replies that answer the prompt for (customer_data, extracted_info).
NavigationReadings(p, s) ==
    {StepByStep(p, s), ImmediateFirst(p, s), ImmediateOnExtracted(p, s)}

(***************************************************************************)
(* _extract_information_from_input: committing the extractor's entries.    *)
(* A candidate value is a string or an array of strings:                   *)
(* [list |-> BOOLEAN, items |-> sequence of strings].                      *)
(***************************************************************************)
Scalar(v) == [list |-> FALSE, items |-> <<v>>]
Array(vs) == [list |-> TRUE, items |-> vs]

\* if isinstance(value, list) and len(value) > 0: value = value[0]
FirstOfArray(value) ==
    IF value.list /\ Len(value.items) > 0 THEN Scalar(value.items[1]) ELSE value

\* The test without its second half (any string for a registered key): the
\* variant that the store invariant (C7) must tell from Accepted.
AcceptedAnyValue(key, value) ==
    /\ key \in DOMAIN valid_keywords
    /\ ~value.list

\* key in valid_keywords and value in valid_keywords[key]
Accepted(key, value) ==
    /\ key \in DOMAIN valid_keywords
    /\ ~value.list
    /\ value.items[1] \in valid_keywords[key]

\* The loop body with dict.setdefault in place of the assignment (a stored
\* value is kept): the variant that the overwrite (C9) must tell from
\* CommitEntry.
CommitEntryKeepFirst(info, key, value) ==
    LET v == FirstOfArray(value)
    IN  IF Accepted(key, v) /\ key \notin DOMAIN info
        THEN Put(info, key, v.items[1]) ELSE info

\* One pass of the loop body: self.extracted_info[key] = value, when accepted.
CommitEntry(info, key, value) ==
    LET v == FirstOfArray(value)
    IN  IF Accepted(key, v) THEN Put(info, key, v.items[1]) ELSE info

\* The loop leaving at the first entry it does not accept: the variant that
\* the commit of the accepted entries (C8) must tell from CommitAll.
RECURSIVE CommitAllUntilRejected(_, _, _)
CommitAllUntilRejected(info, new_info, keys) ==
    IF keys = {} THEN info
    ELSE LET k == CHOOSE x \in keys : TRUE
             v == FirstOfArray(new_info[k])
         IN  IF Accepted(k, v)
             THEN CommitAllUntilRejected(Put(info, k, v.items[1]), new_info,
                                         keys \ {k})
             ELSE info

\* for key, value in new_info.items(): ...
RECURSIVE CommitAll(_, _, _)
CommitAll(info, new_info, keys) ==
    IF keys = {} THEN info
    ELSE LET k == CHOOSE x \in keys : TRUE
         IN  CommitAll(CommitEntry(info, k, new_info[k]), new_info, keys \ {k})

(***************************************************************************)
(* _fallback_extraction: keyword matching on the lower-cased utterance,    *)
(* keyed on the field the last navigation result asked for.                *)
(***************************************************************************)
\* word in user_lower
Contains(text, word) ==
    \E i \in 1..(Len(text) - Len(word) + 1) :
        SubSeq(text, i, i + Len(word) - 1) = word

ContainsAny(text, words) == \E w \in words : Contains(text, w)

LowerChar(c) ==
    CASE c = "A" -> "a" [] c = "B" -> "b" [] c = "C" -> "c" [] c = "D" -> "d"
      [] c = "E" -> "e" [] c = "F" -> "f" [] c = "G" -> "g" [] c = "H" -> "h"
      [] c = "I" -> "i" [] c = "J" -> "j" [] c = "K" -> "k" [] c = "L" -> "l"
      [] c = "M" -> "m" [] c = "N" -> "n" [] c = "O" -> "o" [] c = "P" -> "p"
      [] c = "Q" -> "q" [] c = "R" -> "r" [] c = "S" -> "s" [] c = "T" -> "t"
      [] c = "U" -> "u" [] c = "V" -> "v" [] c = "W" -> "w" [] c = "X" -> "x"
      [] c = "Y" -> "y" [] c = "Z" -> "z" [] OTHER -> c

\* str.lower()
RECURSIVE Lower(_)
Lower(text) ==
    IF Len(text) = 0 THEN text
    ELSE LowerChar(SubSeq(text, 1, 1)) \o Lower(SubSeq(text, 2, Len(text)))

\* str.strip()
RECURSIVE Strip(_)
Strip(text) ==
    IF Len(text) = 0 THEN text
    ELSE IF SubSeq(text, 1, 1) = " " THEN Strip(SubSeq(text, 2, Len(text)))
    ELSE IF SubSeq(text, Len(text), Len(text)) = " "
         THEN Strip(SubSeq(text, 1, Len(text) - 1))
    ELSE text

YesNoFields ==
    {"item_returnable", "late_return_eligible", "delivered", "in_house_policy",
     "third_party_policy", "bnpl_policy", "gift_card_policy"}

\* The value the matcher stores for expected_field, "" when it stores none.
FallbackValue(expected_field, user_lower) ==
    IF expected_field \in YesNoFields THEN
        IF ContainsAny(user_lower, {"yes", "yeah", "yep", "sure", "correct",
                                    "right", "true", "eligible"}) THEN "Yes"
        ELSE IF ContainsAny(user_lower, {"no", "nah", "nope", "not", "false",
                                         "wrong", "ineligible"}) THEN "No"
        ELSE ""
    ELSE IF expected_field = "return_window" THEN
        IF ContainsAny(user_lower, {"yes", "within", "inside", "valid",
                                    "before"}) THEN "within"
        ELSE IF ContainsAny(user_lower, {"no", "expired", "past", "late",
                                         "outside", "beyond"}) THEN "expired"
        ELSE ""
    ELSE IF expected_field = "shipping_issue" THEN
        IF Contains(user_lower, "lost") THEN "Lost"
        ELSE IF Contains(user_lower, "delayed") THEN "Delayed"
        ELSE IF ContainsAny(user_lower, {"neither", "not lost", "not delayed",
                                         "none"}) THEN "Neither"
        ELSE ""
    ELSE IF expected_field = "seller_type" THEN
        IF ContainsAny(user_lower, {"third party", "marketplace", "external",
                                    "third-party"}) THEN "Third-party"
        ELSE IF ContainsAny(user_lower, {"in-house", "direct", "company",
                                         "our company"}) THEN "In-house"
        ELSE ""
    ELSE IF expected_field = "payment_method" THEN
        IF ContainsAny(user_lower, {"credit card", "visa", "mastercard",
                                    "amex"}) THEN "CreditCard"
        ELSE IF ContainsAny(user_lower, {"gift card", "store credit",
                                         "voucher"}) THEN "GiftCard"
        ELSE IF ContainsAny(user_lower, {"bnpl", "klarna", "afterpay",
                                         "buy now pay later"}) THEN "BNPL"
        ELSE IF ContainsAny(user_lower, {"prepaid", "debit", "debit card"})
             THEN "Prepaid"
        ELSE ""
    ELSE ""

\* The matcher without str.lower(): the variant that the resolution of a
\* bare Yes or No (C25) must tell from FallbackExtraction.
FallbackExtractionCaseSensitive(info, last, user_input) ==
    LET user_lower == Strip(user_input)
        expected_field == GetOr(last, "missing_field", "")
        v == FallbackValue(expected_field, user_lower)
    IN  IF expected_field # "" /\ v # "" THEN Put(info, expected_field, v)
        ELSE info

\* _fallback_extraction(user_input), last: self._last_navigation_result
FallbackExtraction(info, last, user_input) ==
    LET user_lower == Strip(Lower(user_input))
        expected_field == GetOr(last, "missing_field", "")
        v == FallbackValue(expected_field, user_lower)
    IN  IF expected_field # "" /\ v # "" THEN Put(info, expected_field, v)
        ELSE info

\* The extraction with the keyword matcher run after the commit as well:
\* the variant that the fallback on failure only (C24) must tell from
\* ExtractInformation.
ExtractInformationAlwaysFallback(info, last, user_input, ex) ==
    IF ex.kind = "ok"
    THEN FallbackExtraction(CommitAll(info, ex.new_info, DOMAIN ex.new_info),
                            last, user_input)
    ELSE FallbackExtraction(info, last, user_input)

\* The extraction of one turn.  ex: what the extractor call gave:
\* [kind |-> "ok", new_info |-> dict of candidates], or kind "not_json"
\* (json.loads fails), "not_object" (JSON that is no object: .items()
\* fails) or "raise" (the call fails): these run the fallback.
ExtractInformation(info, last, user_input, ex) ==
    IF ex.kind = "ok"
    THEN CommitAll(info, ex.new_info, DOMAIN ex.new_info)
    ELSE FallbackExtraction(info, last, user_input)

(***************************************************************************)
(* _navigate_decision_tree_with_llm and _parse_navigation_response.        *)
(* nav: what the navigator call gave:                                      *)
(*   [kind |-> "json", reading |-> "steps", "immediate" or                 *)
(*    "immediate_extracted", omits |-> K]: the JSON reply the prompt asks  *)
(*        for, under one of its readings, without the keys of K;           *)
(*   [kind |-> "other_status"]: a one-line JSON object whose status is     *)
(*        neither NEED_INFO nor DECISION (returned by Approach 2);         *)
(*   [kind |-> "prose", mentions |-> M]: a reply without a JSON object,    *)
(*        M the fields whose pattern of field_patterns matches the text;   *)
(*   [kind |-> "raise"]: the call failed.                                  *)
(***************************************************************************)
PromptReply(p, s, reading) ==
    IF reading = "steps" THEN StepByStep(p, s)
    ELSE IF reading = "immediate" THEN ImmediateFirst(p, s)
    ELSE ImmediateOnExtracted(p, s)

\* field_patterns, in the order the scan tries them
field_patterns ==
    <<"item_returnable", "item_condition", "delivered", "seller_type",
      "payment_method", "shipping_issue", "return_window",
      "late_return_eligible", "in_house_policy", "third_party_policy",
      "bnpl_policy", "gift_card_policy">>

\* Approach 3: the first field of field_patterns found in the text.
ManualExtraction(mentions) ==
    IF \E i \in 1..Len(field_patterns) : field_patterns[i] \in mentions
    THEN LET i == CHOOSE j \in 1..Len(field_patterns) :
                    /\ field_patterns[j] \in mentions
                    /\ \A h \in 1..(j - 1) : field_patterns[h] \notin mentions
         IN  [status |-> "NEED_INFO", stuck_at_node |-> "ItemEligible",
              missing_field |-> field_patterns[i],
              context |-> <<"Manual extraction", field_patterns[i]>>]
    ELSE [status |-> "ERROR", error |-> "Could not parse navigation response"]

\* A JSON object without some of its keys.
Omit(reply, keys) == [k \in (DOMAIN reply) \ keys |-> reply[k]]

\* Approaches 1 and 2 return a JSON object that has a status.
ParseNavigationResponse(reply) ==
    IF "status" \in DOMAIN reply THEN reply
    ELSE [status |-> "ERROR", error |-> "Could not parse navigation response"]

NavigateDecisionTreeWithLLM(p, s, nav) ==
    IF nav.kind = "raise"
    THEN [status |-> "ERROR", error |-> "Navigation error"]
    ELSE IF nav.kind = "prose" THEN ManualExtraction(nav.mentions)
    ELSE IF nav.kind = "other_status"
    THEN ParseNavigationResponse([status |-> "UNKNOWN"])
    ELSE ParseNavigationResponse(Omit(PromptReply(p, s, nav.reading), nav.omits))

(***************************************************************************)
(* _generate_missing_info_question.  ph: what the phraser call gave:       *)
(* "names_field" (a question that contains the field name), "other_text"   *)
(* (one that does not), "raise" (the call failed).                         *)
(***************************************************************************)
fallback_questions ==
    {"item_returnable", "item_condition", "delivered", "seller_type",
     "payment_method", "shipping_issue", "return_window",
     "late_return_eligible", "in_house_policy", "third_party_policy",
     "bnpl_policy", "gift_card_policy"}

\* The values each built-in question lists after "Please specify:".
fallback_question_values ==
    [f \in fallback_questions |->
        CASE f = "item_condition" -> {"damaged", "defective", "normal"}
          [] f = "seller_type" -> {"In-house", "Third-party"}
          [] f = "payment_method" -> {"CreditCard", "GiftCard", "BNPL", "Prepaid"}
          [] f = "shipping_issue" -> {"Lost", "Delayed", "Neither"}
          [] f = "return_window" -> {"within", "expired"}
          [] OTHER -> {"Yes", "No"}]

\* The values a question of the engine's own text lists: those of the
\* built-in question, none in "I need more information about <field> to
\* process your refund request."
QuestionValues(question) ==
    IF question.kind = "fallback" THEN fallback_question_values[question.field]
    ELSE {}

GenerateMissingInfoQuestion(last, ph) ==
    LET missing_field == GetOr(last, "missing_field", "unknown")
    IN  IF ph = "raise"
        THEN IF missing_field \in fallback_questions
             THEN [kind |-> "fallback", field |-> missing_field]
             ELSE [kind |-> "generic", field |-> missing_field]
        ELSE IF ph = "other_text" /\ missing_field \in fallback_questions
             THEN [kind |-> "fallback", field |-> missing_field]
        ELSE [kind |-> "phraser", field |-> missing_field]

(***************************************************************************)
(* What process_refund_request / continue_conversation return, or, with   *)
(* the key raised, the exception they raise: result['decision'] and        *)
(* result['reason'] are indexed without a default.                         *)
(***************************************************************************)
TurnReturn(result, ph) ==
    IF result.status = "NEED_INFO"
    THEN [status |-> "NEED_INFO",
          question |-> GenerateMissingInfoQuestion(result, ph),
          stuck_at |-> GetOr(result, "stuck_at_node", "unknown"),
          missing_field |-> GetOr(result, "missing_field", "unknown"),
          context |-> GetOr(result, "context", <<>>)]
    ELSE IF result.status = "DECISION"
    THEN IF {"decision", "reason"} \subseteq DOMAIN result
         THEN [status |-> "DECISION", decision |-> result.decision,
               reason |-> result.reason,
               terminal_node |-> GetOr(result, "terminal_node", ""),
               decision_path |-> GetOr(result, "decision_path", <<>>)]
         ELSE [raised |-> "KeyError"]
    ELSE [status |-> "ERROR",
          error |-> GetOr(result, "error", "Unknown error occurred")]

(***************************************************************************)
(* Inputs of the model.                                                    *)
(***************************************************************************)
\* Profiles with every field in its domain.
Profiles ==
    [account_status : valid_keywords["account_status"],
     loyalty_tier : valid_keywords["loyalty_tier"],
     fraud_flag : valid_keywords["fraud_flag"],
     return_abuse : valid_keywords["return_abuse"]]

\* load_customer_data: the profile used when the file is not found
DefaultProfile ==
    [account_status |-> "good_standing", loyalty_tier |-> "Gold",
     fraud_flag |-> "No", return_abuse |-> "No"]

\* The customer files of Spec.
CustomerFiles ==
    {DefaultProfile,
     [DefaultProfile EXCEPT !.account_status = "not_good_standing"],
     [DefaultProfile EXCEPT !.loyalty_tier = "Bronze", !.fraud_flag = "Yes"]}

\* The utterances of Spec.
Utterances == {"Yes", "not eligible"}

\* The keys and candidate values an extractor reply of Spec may hold:
\* two conversation slots (strings in and out of the domain, arrays), a
\* profile field, and a key that is no slot.
CandidateValues ==
    [k \in {"item_category", "item_returnable", "account_status", "colour"} |->
        CASE k = "item_category" ->
                {Scalar("Physical"), Scalar("Digital"), Scalar("Unknown"),
                 Array(<<"Physical", "Digital">>), Array(<<>>)}
          [] k = "item_returnable" -> {Scalar("Yes"), Scalar("No")}
          [] k = "account_status" -> {Scalar("not_good_standing")}
          [] OTHER -> {Scalar("red")}]

\* Every dict that gives some of these keys one of its candidate values.
CandidateDicts ==
    UNION {{d \in [keys -> UNION {CandidateValues[k] : k \in keys}] :
              \A k \in keys : d[k] \in CandidateValues[k]} :
           keys \in SUBSET DOMAIN CandidateValues}

ExtractorOutcomes ==
    {[kind |-> "ok", new_info |-> d] : d \in CandidateDicts}
      \cup {[kind |-> "not_json"], [kind |-> "not_object"], [kind |-> "raise"]}

NavigatorOutcomes ==
    {[kind |-> "json", reading |-> r, omits |-> {}] :
        r \in {"steps", "immediate", "immediate_extracted"}}
      \cup {[kind |-> "json", reading |-> "steps", omits |-> k] :
              k \in {{"terminal_node", "decision_path"}, {"decision"}}}
      \cup {[kind |-> "other_status"]}
      \cup {[kind |-> "prose", mentions |-> m] :
              m \in {{}, {"item_returnable"}, {"item_condition", "gift_card_policy"}}}
      \cup {[kind |-> "raise"]}

PhraserOutcomes == {"names_field", "other_text", "raise"}

(***************************************************************************)
(* The engine's operations.  A turn (process_refund_request or             *)
(* continue_conversation) waits on three remote calls; pc is its position: *)
(* "extract" (the extractor has answered), "navigate" (the extraction is   *)
(* committed, the navigator is called), "question" (the navigation asked   *)
(* for a slot, the phraser is called), "idle" (no turn is running), and    *)
(* "new" (the engine is constructed, main has not yet loaded the profile). *)
(***************************************************************************)
NoReply == [kind |-> "none"]

\* No second engine: the process holds one LLMDecisionEngine (main).
NoEngine == [pc |-> "none"]

\* __init__
Init ==
    /\ customer_data = EmptyDict
    /\ extracted_info = EmptyDict
    /\ conversation_history = <<>>
    /\ current_state = "Start"
    /\ last_navigation_result = EmptyDict
    /\ turn_result = EmptyDict
    /\ pc = "new"
    /\ extractor_reply = NoReply
    /\ export_returned = "none"
    /\ other = NoEngine

\* load_customer_data, called before the conversation starts (main).
\* outcome "found": the file holds the profile file; "not_found": the
\* default profile; "error": any other failure, customer_data stays.
LoadCustomerData(outcome, file) ==
    /\ pc = "new"
    /\ customer_data' =
          IF outcome = "found" THEN file
          ELSE IF outcome = "not_found" THEN DefaultProfile
          ELSE customer_data
    /\ pc' = "idle"
    /\ UNCHANGED <<export_returned, other>>
    /\ UNCHANGED <<extracted_info, conversation_history, current_state,
                   last_navigation_result, turn_result, extractor_reply>>

\* The start of a turn: the utterance is stored and the extractor called.
StartTurn(user_request, ex) ==
    /\ pc = "idle"
    /\ Len(conversation_history) < MaxTurns
    /\ conversation_history' = Append(conversation_history, user_request)
    /\ extractor_reply' = ex
    /\ pc' = "extract"
    /\ UNCHANGED <<export_returned, other>>
    /\ UNCHANGED <<customer_data, extracted_info, current_state,
                   last_navigation_result, turn_result>>

\* process_refund_request: the first utterance of a conversation
\* (LLMConversationManager._process_user_request)
ProcessRefundRequest(user_request, ex) ==
    /\ Len(conversation_history) = 0
    /\ StartTurn(user_request, ex)

\* continue_conversation: every later utterance
ContinueConversation(user_response, ex) ==
    /\ Len(conversation_history) > 0
    /\ StartTurn(user_response, ex)

\* The extraction with a second extractor call after a failed one: the
\* variant that the single call per collaborator (C23) must tell from
\* CommitExtraction.
CommitExtractionRetries ==
    /\ pc = "extract"
    /\ IF extractor_reply.kind = "raise"
       THEN /\ extractor_reply' = [kind |-> "not_json"]
            /\ UNCHANGED <<extracted_info, pc>>
       ELSE /\ extracted_info' =
                  ExtractInformation(extracted_info, last_navigation_result,
                                     conversation_history[Len(conversation_history)],
                                     extractor_reply)
            /\ pc' = "navigate"
            /\ UNCHANGED extractor_reply
    /\ UNCHANGED <<export_returned, other>>
    /\ UNCHANGED <<customer_data, conversation_history, current_state,
                   last_navigation_result, turn_result>>

\* _extract_information_from_input, after the extractor's answer: the
\* entries are committed, or the fallback matcher runs.
CommitExtraction ==
    /\ pc = "extract"
    /\ extracted_info' =
          ExtractInformation(extracted_info, last_navigation_result,
                             conversation_history[Len(conversation_history)],
                             extractor_reply)
    /\ pc' = "navigate"
    /\ UNCHANGED <<export_returned, other>>
    /\ UNCHANGED <<customer_data, conversation_history, current_state,
                   last_navigation_result, turn_result, extractor_reply>>

\* The navigator's return with the store emptied when the result is an
\* error: the variant that the recovery from ERROR (C27) must tell from
\* NavigatorReturns.
NavigatorReturnsDropsSlots(nav) ==
    LET result == NavigateDecisionTreeWithLLM(customer_data, extracted_info, nav)
    IN  /\ pc = "navigate"
        /\ last_navigation_result' = result
        /\ IF result.status = "NEED_INFO"
           THEN pc' = "question" /\ UNCHANGED turn_result
           ELSE pc' = "idle" /\ turn_result' = TurnReturn(result, "raise")
        /\ extracted_info' =
              IF result.status = "ERROR" THEN EmptyDict ELSE extracted_info
        /\ extractor_reply' = NoReply
        /\ UNCHANGED <<export_returned, other>>
        /\ UNCHANGED <<customer_data, conversation_history, current_state>>

\* The navigator's return with the stored result replaced only by a result
\* that asks for a slot: the variant that the last asked slot (C39) must
\* tell from NavigatorReturns.
NavigatorReturnsKeepsAsked(nav) ==
    LET result == NavigateDecisionTreeWithLLM(customer_data, extracted_info, nav)
    IN  /\ pc = "navigate"
        /\ last_navigation_result' =
              IF result.status = "NEED_INFO" THEN result
              ELSE last_navigation_result
        /\ IF result.status = "NEED_INFO"
           THEN pc' = "question" /\ UNCHANGED turn_result
           ELSE pc' = "idle" /\ turn_result' = TurnReturn(result, "raise")
        /\ extractor_reply' = NoReply
        /\ UNCHANGED <<export_returned, other>>
        /\ UNCHANGED <<customer_data, extracted_info, conversation_history,
                       current_state>>

\* _navigate_decision_tree_with_llm returns: the result is stored; unless
\* it asks for a slot, the turn returns.
NavigatorReturns(nav) ==
    LET result == NavigateDecisionTreeWithLLM(customer_data, extracted_info, nav)
    IN  /\ pc = "navigate"
        /\ last_navigation_result' = result
        /\ IF result.status = "NEED_INFO"
           THEN pc' = "question" /\ UNCHANGED turn_result
           ELSE pc' = "idle" /\ turn_result' = TurnReturn(result, "raise")
        /\ extractor_reply' = NoReply
        /\ UNCHANGED <<export_returned, other>>
        /\ UNCHANGED <<customer_data, extracted_info, conversation_history,
                       current_state>>

\* _generate_missing_info_question returns, and with it the turn.
PhraserReturns(ph) ==
    /\ pc = "question"
    /\ turn_result' = TurnReturn(last_navigation_result, ph)
    /\ pc' = "idle"
    /\ UNCHANGED <<export_returned, other>>
    /\ UNCHANGED <<customer_data, extracted_info, conversation_history,
                   current_state, last_navigation_result, extractor_reply>>

\* reset_conversation without its last assignment (the last navigation
\* result, and with it the last asked slot, is kept): the variant that the
\* reset contract (C21) must tell from ResetConversation.
ResetConversationKeepsLastResult ==
    /\ pc = "idle"
    /\ conversation_history' = <<>>
    /\ extracted_info' = EmptyDict
    /\ current_state' = "Start"
    /\ UNCHANGED <<export_returned, other>>
    /\ UNCHANGED <<customer_data, last_navigation_result, turn_result, pc,
                   extractor_reply>>

\* reset_conversation
ResetConversation ==
    /\ pc = "idle"
    /\ conversation_history' = <<>>
    /\ extracted_info' = EmptyDict
    /\ current_state' = "Start"
    /\ last_navigation_result' = EmptyDict
    /\ UNCHANGED <<export_returned, other>>
    /\ UNCHANGED <<customer_data, turn_result, pc, extractor_reply>>

\* get_conversation_status
GetConversationStatus ==
    [turns |-> Len(conversation_history),
     extracted_info |-> extracted_info,
     current_state |-> current_state,
     customer_id |-> GetOr(customer_data, "customer_id", "Unknown")]

\* export_conversation: the document written (the export timestamp is left
\* out).
ExportConversation ==
    [customer_data |-> customer_data,
     extracted_info |-> extracted_info,
     conversation_history |-> conversation_history,
     final_state |-> current_state]

Next ==
    \/ \E outcome \in {"found", "not_found", "error"}, file \in CustomerFiles :
          LoadCustomerData(outcome, file)
    \/ \E u \in Utterances, ex \in ExtractorOutcomes : ProcessRefundRequest(u, ex)
    \/ \E u \in Utterances, ex \in ExtractorOutcomes : ContinueConversation(u, ex)
    \/ CommitExtraction
    \/ \E nav \in NavigatorOutcomes : NavigatorReturns(nav)
    \/ \E ph \in PhraserOutcomes : PhraserReturns(ph)
    \/ ResetConversation

Spec == Init /\ [][Next]_vars

(***************************************************************************)
(* SpecDecide and SpecWalk: the navigation procedure alone, applied to a   *)
(* profile drawn from Profiles and to the stores built one accepted write  *)
(* at a time.  SpecDecide takes every store of at most MaxStored slots,    *)
(* SpecWalk the stores that answer the questions of the step walk with at  *)
(* most MaxOffPath further slots.                                          *)
(***************************************************************************)
\* The slots written in these two specifications: those a step reads, and
\* one that no step reads.
StoredSlots ==
    {node_slot[n] : n \in DOMAIN node_slot} \cup {"manual_review_outcome"}

\* The slots the step walk has read when it gives reply r.
SlotsRead(r) ==
    LET walked == IF r.status = "DECISION" THEN r.decision_path ELSE r.context
    IN  {node_slot[walked[i]] :
            i \in {j \in 1..Len(walked) : walked[j] \in DOMAIN node_slot}}

OffPath(p, s) == (DOMAIN s) \ SlotsRead(StepByStep(p, s))

InitDecide ==
    /\ customer_data \in Profiles
    /\ extracted_info = EmptyDict
    /\ conversation_history = <<>>
    /\ current_state = "Start"
    /\ last_navigation_result = EmptyDict
    /\ turn_result = EmptyDict
    /\ pc = "idle"
    /\ extractor_reply = NoReply
    /\ export_returned = "none"
    /\ other = NoEngine

\* self.extracted_info[key] = value, for an accepted (key, value)
StoreValue(key, value) ==
    /\ extracted_info' = CommitEntry(extracted_info, key, Scalar(value))
    /\ last_navigation_result' = EmptyDict
    /\ UNCHANGED <<export_returned, other>>
    /\ UNCHANGED <<customer_data, conversation_history, current_state,
                   turn_result, pc, extractor_reply>>

\* One evaluation of the navigation on the current profile and store.
Decide(reading) ==
    /\ last_navigation_result' =
          NavigateDecisionTreeWithLLM(customer_data, extracted_info,
                                      [kind |-> "json", reading |-> reading,
                                       omits |-> {}])
    /\ UNCHANGED <<export_returned, other>>
    /\ UNCHANGED <<customer_data, extracted_info, conversation_history,
                   current_state, turn_result, pc, extractor_reply>>

NextDecide ==
    \/ \E key \in StoredSlots : \E value \in valid_keywords[key] :
          /\ StoreValue(key, value)
          /\ Cardinality(DOMAIN extracted_info') <= MaxStored
    \/ \E reading \in {"steps", "immediate"} : Decide(reading)

SpecDecide == InitDecide /\ [][NextDecide]_vars

NextWalk ==
    \/ \E key \in StoredSlots : \E value \in valid_keywords[key] :
          /\ StoreValue(key, value)
          /\ Cardinality(OffPath(customer_data, extracted_info')) <= MaxOffPath
    \/ \E reading \in {"steps", "immediate"} : Decide(reading)

SpecWalk == InitDecide /\ [][NextWalk]_vars

(***************************************************************************)
(* SpecFallback: the keyword matcher, in a session of the default profile  *)
(* whose extractor fails on every turn.  The turn under way is the first   *)
(* of a conversation (no slot asked), or the second: the first turn's      *)
(* navigator reply then had no JSON object and mentioned one field (manual *)
(* extraction, that field is asked), or was the JSON reply of the step     *)
(* walk (item_category is asked), or the call failed (an ERROR turn, no    *)
(* slot asked).  The turn runs to its return.                              *)
(***************************************************************************)
\* The answers given to the question.
MatcherUtterances ==
    {"Yes", "No", "yes", " no ", "it was lost", "delayed", "Neither", "none",
     "not lost", "not delayed", "neither lost nor delayed", "it is fine",
     "ineligible", "not eligible", "not correct", "not right", "nope",
     "wrong"}

\* The navigation results a first turn with an empty store can have left.
FirstTurnResults ==
    {ManualExtraction({field_patterns[i]}) : i \in 1..Len(field_patterns)}
        \cup {NavigateDecisionTreeWithLLM(DefaultProfile, EmptyDict, nav) :
                 nav \in {[kind |-> "json", reading |-> "steps", omits |-> {}],
                          [kind |-> "raise"]}}

InitFallback ==
    /\ customer_data = DefaultProfile
    /\ extracted_info = EmptyDict
    /\ current_state = "Start"
    /\ \/ /\ conversation_history \in {<<"Yes", u>> : u \in MatcherUtterances}
          /\ last_navigation_result \in FirstTurnResults
          /\ turn_result = TurnReturn(last_navigation_result, "raise")
       \/ /\ conversation_history \in {<<u>> : u \in MatcherUtterances}
          /\ last_navigation_result = EmptyDict
          /\ turn_result = EmptyDict
    /\ pc = "extract"
    /\ extractor_reply \in
          {[kind |-> "not_json"], [kind |-> "not_object"], [kind |-> "raise"]}
    /\ export_returned = "none"
    /\ other = NoEngine

NextFallback ==
    \/ CommitExtraction
    \/ \E nav \in NavigatorOutcomes : NavigatorReturns(nav)
    \/ \E ph \in PhraserOutcomes : PhraserReturns(ph)

SpecFallback == InitFallback /\ [][NextFallback]_vars

(***************************************************************************)
(* SpecManager: the engine as LLMConversationManager drives it.  The       *)
(* manager reads a line; "reset" and "export" call the engine's operation, *)
(* any other text starts a turn (process_refund_request when the history   *)
(* is empty, continue_conversation otherwise), and the result the turn     *)
(* returns is displayed before the next line is read.  An exception that   *)
(* leaves the turn is caught by the loop and nothing is displayed.         *)
(***************************************************************************)
\* export_conversation with the failure leaving the method: the variant
\* that the recovered export failure (C31) must tell from
\* ExportConversationReturns.
ExportConversationRaises(outcome) ==
    /\ pc = "idle"
    /\ export_returned' = IF outcome = "written" THEN "filename" ELSE "raised"
    /\ UNCHANGED <<customer_data, extracted_info, conversation_history,
                   current_state, last_navigation_result, turn_result, pc,
                   extractor_reply, other>>

\* export_conversation returns.  outcome "written": the document
\* ExportConversation is in the file and the file name is returned;
\* "error": open or json.dump failed, None is returned.
ExportConversationReturns(outcome) ==
    /\ pc = "idle"
    /\ export_returned' = IF outcome = "written" THEN "filename" ELSE "None"
    /\ UNCHANGED <<customer_data, extracted_info, conversation_history,
                   current_state, last_navigation_result, turn_result, pc,
                   extractor_reply, other>>

\* _display_result without the reset: the variant that the reset after a
\* decision (C35) must tell from DisplayResultResets.
DisplayResultKeepsSession(result) == FALSE

\* _display_result calls reset_conversation when it has shown a decision.
DisplayResultResets(result) == Get(result, "status") = "DECISION"

\* _process_user_request, from the navigator's return on: the turn returns
\* unless the navigation asks for a slot, and its result is displayed.
ProcessUserRequestReturns(nav) ==
    LET result == NavigateDecisionTreeWithLLM(customer_data, extracted_info, nav)
    IN  IF result.status # "NEED_INFO"
           /\ DisplayResultResets(TurnReturn(result, "raise"))
        THEN /\ pc = "navigate"
             /\ turn_result' = TurnReturn(result, "raise")
             /\ pc' = "idle"
             /\ extractor_reply' = NoReply
             /\ conversation_history' = <<>>
             /\ extracted_info' = EmptyDict
             /\ current_state' = "Start"
             /\ last_navigation_result' = EmptyDict
             /\ UNCHANGED <<customer_data, export_returned, other>>
        ELSE NavigatorReturns(nav)

\* The extractor replies of SpecManager: no slot, a category that lets the
\* walk go on, one that ends it, a slot of the immediate list; a failure.
ManagerExtractorOutcomes ==
    {[kind |-> "ok", new_info |-> d] :
        d \in {EmptyDict, [item_category |-> Scalar("Physical")],
               [item_category |-> Scalar("Digital")],
               [item_returnable |-> Scalar("No")]}}
      \cup {[kind |-> "raise"]}

NextManager ==
    \/ \E outcome \in {"found", "not_found", "error"}, file \in CustomerFiles :
          LoadCustomerData(outcome, file)
    \/ \E u \in Utterances, ex \in ManagerExtractorOutcomes :
          ProcessRefundRequest(u, ex)
    \/ \E u \in Utterances, ex \in ManagerExtractorOutcomes :
          ContinueConversation(u, ex)
    \/ CommitExtraction
    \/ \E nav \in NavigatorOutcomes : ProcessUserRequestReturns(nav)
    \/ \E ph \in PhraserOutcomes : PhraserReturns(ph)
    \/ ResetConversation
    \/ \E outcome \in {"written", "error"} : ExportConversationReturns(outcome)

SpecManager == Init /\ [][NextManager]_vars

(***************************************************************************)
(* SpecSessions: two engines in one process (two LLMConversationManager    *)
(* objects, each with the engine its __init__ creates), their calls        *)
(* interleaved in any order.  The variables of the engine are those of the *)
(* engine whose call runs or ran last; other holds the second engine as    *)
(* its last call left it, and other.engine tells which of the two it is.   *)
(* A call runs to its return before the caller turns to the other engine.  *)
(***************************************************************************)
\* The engines of SpecSessions.
Engines == {1, 2}

\* The lists and dicts bound at class level, one object for every
\* instance: the variant that the isolation of two engines (C33) must tell
\* from InstanceObject.
InstanceObjectOfClass(engine, field) == <<0, field>>

\* __init__ binds self.conversation_history, self.extracted_info,
\* self.customer_data and self._last_navigation_result to a new list or
\* dict, and MermaidDecisionTree.__init__ builds its own registry: the
\* object behind a field of an engine is that engine's own.
InstanceObject(engine, field) == <<engine, field>>

\* A field of the two engines is one object.
SameObject(field) == InstanceObject(1, field) = InstanceObject(2, field)

\* An engine after __init__.
NewEngine(engine) ==
    [engine |-> engine, customer_data |-> EmptyDict,
     extracted_info |-> EmptyDict, conversation_history |-> <<>>,
     current_state |-> "Start", last_navigation_result |-> EmptyDict,
     turn_result |-> EmptyDict, pc |-> "new", extractor_reply |-> NoReply,
     export_returned |-> "none"]

InitSessions ==
    /\ customer_data = EmptyDict
    /\ extracted_info = EmptyDict
    /\ conversation_history = <<>>
    /\ current_state = "Start"
    /\ last_navigation_result = EmptyDict
    /\ turn_result = EmptyDict
    /\ pc = "new"
    /\ extractor_reply = NoReply
    /\ export_returned = "none"
    /\ other = NewEngine(2)

\* The caller turns to the other engine: its fields are what its last call
\* left, read through the objects they are bound to (the content of an
\* object that both engines hold is what the last write left in it).
SwitchEngine ==
    /\ other # NoEngine
    /\ pc \in {"new", "idle"}
    /\ other' =
          [engine |-> CHOOSE e \in Engines : e # other.engine,
           customer_data |-> customer_data,
           extracted_info |-> extracted_info,
           conversation_history |-> conversation_history,
           current_state |-> current_state,
           last_navigation_result |-> last_navigation_result,
           turn_result |-> turn_result, pc |-> pc,
           extractor_reply |-> extractor_reply,
           export_returned |-> export_returned]
    /\ customer_data' =
          IF SameObject("customer_data") THEN customer_data
          ELSE other.customer_data
    /\ extracted_info' =
          IF SameObject("extracted_info") THEN extracted_info
          ELSE other.extracted_info
    /\ conversation_history' =
          IF SameObject("conversation_history") THEN conversation_history
          ELSE other.conversation_history
    /\ last_navigation_result' =
          IF SameObject("_last_navigation_result") THEN last_navigation_result
          ELSE other.last_navigation_result
    /\ current_state' = other.current_state
    /\ turn_result' = other.turn_result
    /\ pc' = other.pc
    /\ extractor_reply' = other.extractor_reply
    /\ export_returned' = other.export_returned

\* The collaborator replies of SpecSessions.
SessionsExtractorOutcomes ==
    {[kind |-> "ok", new_info |-> [item_category |-> Scalar(c)]] :
        c \in {"Physical", "Digital"}} \cup {[kind |-> "raise"]}

SessionsNavigatorOutcomes ==
    {[kind |-> "json", reading |-> "steps", omits |-> {}], [kind |-> "raise"]}

NextSessions ==
    \/ \E file \in CustomerFiles : LoadCustomerData("found", file)
    \/ \E ex \in SessionsExtractorOutcomes : ProcessRefundRequest("Yes", ex)
    \/ \E ex \in SessionsExtractorOutcomes : ContinueConversation("Yes", ex)
    \/ CommitExtraction
    \/ \E nav \in SessionsNavigatorOutcomes : NavigatorReturns(nav)
    \/ PhraserReturns("raise")
    \/ ResetConversation
    \/ \E outcome \in {"written", "error"} : ExportConversationReturns(outcome)
    \/ SwitchEngine

SpecSessions == InitSessions /\ [][NextSessions]_vars

(***************************************************************************)
(* Properties.                                                             *)
(***************************************************************************)
\* STEP 18 is the last step of the navigation prompt.
MaxSteps == 18

\* A navigation result is stored (none after __init__ or a reset).
Evaluated == last_navigation_result # EmptyDict

\* The nodes a result says were walked.
Walked(r) ==
    LET path == IF r.status = "DECISION" THEN GetOr(r, "decision_path", <<>>)
                ELSE GetOr(r, "context", <<>>)
    IN  {path[i] : i \in 1..Len(path)}

IsDecision(r, t) == Get(r, "status") = "DECISION" /\ Get(r, "decision") = t

IsNeedInfo(r, field) ==
    Get(r, "status") = "NEED_INFO" /\ Get(r, "missing_field") = field

\* The three gates as the steps 1 to 4 state them.
Gate1Passes(p) == Get(p, "account_status") = "good_standing"
Gate2Passes(p) == ~(Get(p, "loyalty_tier") = "Gold" /\ Get(p, "fraud_flag") = "Yes")
Gate3Passes(p) == Get(p, "return_abuse") # "Yes"

C2_FraudGateGoldOnly ==
    (Evaluated /\ Gate1Passes(customer_data)
               /\ Get(customer_data, "fraud_flag") = "Yes")
        => IF Get(customer_data, "loyalty_tier") = "Gold"
           THEN /\ IsDecision(last_navigation_result, "RefundDenied2")
                /\ Walked(last_navigation_result) \cap DOMAIN node_slot = {}
           ELSE /\ ~IsDecision(last_navigation_result, "RefundDenied2")
                /\ "ReturnHistory" \in Walked(last_navigation_result)

\* C3 (SpecDecide).  When the account and fraud gates pass and
\* return_abuse = Yes, the navigation gives the decision ManualReview at
\* once: no item node is walked, no slot is asked for and no review outcome
\* node (FinalDecision1) follows, whatever the slot store holds.
C3_ManualReviewTerminal ==
    (Evaluated /\ Gate1Passes(customer_data) /\ Gate2Passes(customer_data)
               /\ Get(customer_data, "return_abuse") = "Yes")
        => /\ IsDecision(last_navigation_result, "ManualReview")
           /\ Walked(last_navigation_result)
                \cap (DOMAIN node_slot \cup {"FinalDecision1"}) = {}

\* C4 (Spec).  Totality: for a profile with its four facts in their domains
\* and a store with its values in their domains, the navigation of a turn
\* gives exactly a NEED_INFO that names one registered slot or a DECISION
\* that names one terminal, with at most MaxSteps decision nodes walked.
C4_Totality ==
    (Evaluated /\ customer_data \in Profiles
               /\ \A k \in DOMAIN extracted_info :
                     k \in DOMAIN valid_keywords
                        /\ extracted_info[k] \in valid_keywords[k])
        => /\ \/ /\ Get(last_navigation_result, "status") = "NEED_INFO"
                 /\ Get(last_navigation_result, "missing_field")
                        \in DOMAIN valid_keywords
              \/ /\ Get(last_navigation_result, "status") = "DECISION"
                 /\ Get(last_navigation_result, "decision") \in terminal_nodes
           /\ Cardinality(Walked(last_navigation_result) \cap decision_nodes)
                 <= MaxSteps

\* C5 (SpecDecide).  Determinism: an evaluation of the navigation on the
\* profile and store that the stored result was computed from gives that
\* same result, path included.
C5_Determinism ==
    [][(/\ Evaluated
        /\ last_navigation_result' # EmptyDict
        /\ customer_data' = customer_data
        /\ extracted_info' = extracted_info)
          => last_navigation_result' = last_navigation_result]_vars

\* C6 (Spec).  Monotonic questioning: every NEED_INFO a turn's navigation
\* gives names a slot that is absent from the store at that moment (so that,
\* the store losing no slot without a reset, no slot is asked for once it
\* holds a value).  The stored result belongs to the current store except
\* between the commit of a turn's extraction and the navigation's return.
C6_MonotonicQuestioning ==
    (pc # "navigate" /\ Get(last_navigation_result, "status") = "NEED_INFO")
        => Get(last_navigation_result, "missing_field")
              \notin DOMAIN extracted_info

\* C7 (Spec).  Store invariant: in every state of a session every key of
\* extracted_info is a registered slot and its value is in the slot's
\* domain.
C7_SlotStoreInvariant ==
    \A k \in DOMAIN extracted_info :
        /\ k \in DOMAIN valid_keywords
        /\ extracted_info[k] \in valid_keywords[k]

\* C7: the second turn's extractor call failed and the keyword fallback has
\* stored the slot that the first turn's walk asked for, next to the slot
\* that the extractor gave in the first turn.
C7_Witness ==
    /\ pc = "navigate"
    /\ extractor_reply.kind = "raise"
    /\ last_navigation_result =
          NeedInfoReply("item_returnable",
                        <<"Start", "CustStatus", "LoyaltyTier", "FraudCheck",
                          "ReturnHistory", "ItemCategory", "ItemEligible">>)
    /\ DOMAIN extracted_info = {"item_category", "item_returnable"}

\* The entries of an extractor reply that the claim C8 says are committed:
\* a registered slot with a string of the slot's domain.
C8_ValidAsStated(new_info) ==
    {k \in DOMAIN new_info :
        /\ k \in DOMAIN valid_keywords
        /\ ~new_info[k].list
        /\ new_info[k].items[1] \in valid_keywords[k]}

\* The same with an array standing for its first element.
C8_ValidOrFirstOfArray(new_info) ==
    {k \in DOMAIN new_info :
        /\ k \in DOMAIN valid_keywords
        /\ Len(new_info[k].items) > 0
        /\ new_info[k].items[1] \in valid_keywords[k]}

\* The step that commits an extractor reply leaves exactly the entries of
\* `committed` in the store, each with its (first) string, every other slot
\* as it was, and goes on to the navigation.
C8_CommitsExactly(committed) ==
    /\ pc' = "navigate"
    /\ DOMAIN extracted_info' = DOMAIN extracted_info \cup committed
    /\ \A k \in committed :
          extracted_info'[k] = extractor_reply.new_info[k].items[1]
    /\ \A k \in DOMAIN extracted_info \ committed :
          extracted_info'[k] = extracted_info[k]

\* C8 as stated (Spec).  Of the entries of an extractor reply exactly those
\* with a registered slot and a value of the slot's domain are committed;
\* every other entry is discarded, the rest of the entries still handled,
\* its slot left absent or with its previous value.
C8_Original ==
    [][(pc = "extract" /\ extractor_reply.kind = "ok")
          => C8_CommitsExactly(C8_ValidAsStated(extractor_reply.new_info))]_vars

\* C8 amended (Spec).  Of the entries of an extractor reply exactly those
\* with a registered slot and a value that is, or when it is a non-empty
\* array whose first element is, in the slot's domain are committed (as
\* that string); every other entry is discarded, the rest of the entries
\* still handled, its slot left absent or with its previous value.
C8_CommitsValidEntries ==
    [][(pc = "extract" /\ extractor_reply.kind = "ok")
          => C8_CommitsExactly(
                C8_ValidOrFirstOfArray(extractor_reply.new_info))]_vars

\* C8: a reply with an out-of-domain value for a stored slot, a valid value
\* for the slot the first turn asked for and a key that is no slot has been
\* committed: the stored slot holds its previous value, the valid entry is
\* stored, the unknown key is not.
C8_Witness ==
    /\ pc = "navigate"
    /\ extractor_reply =
          [kind |-> "ok",
           new_info |-> [k \in {"item_category", "item_returnable", "colour"} |->
                           CASE k = "item_category" -> Scalar("Unknown")
                             [] k = "item_returnable" -> Scalar("No")
                             [] OTHER -> Scalar("red")]]
    /\ IsNeedInfo(last_navigation_result, "item_returnable")
    /\ "ItemCategory" \in Walked(last_navigation_result)
    /\ extracted_info = [k \in {"item_category", "item_returnable"} |->
                            IF k = "item_category" THEN "Physical" ELSE "No"]

\* C9 (Spec).  Correction by overwrite: an accepted entry for a slot that
\* holds a value replaces it (the same value again leaves the store as it
\* is), and the JSON reply of the navigation that follows is a reply of the
\* prompt for the store with the new value.
C9_CorrectionByOverwrite ==
    [][/\ (pc = "extract" /\ extractor_reply.kind = "ok")
            => \A k \in DOMAIN extracted_info
                          \cap C8_ValidOrFirstOfArray(extractor_reply.new_info) :
                  /\ extracted_info'[k] = extractor_reply.new_info[k].items[1]
                  /\ (\A j \in C8_ValidOrFirstOfArray(extractor_reply.new_info) :
                         /\ j \in DOMAIN extracted_info
                         /\ extracted_info[j] = extractor_reply.new_info[j].items[1])
                       => extracted_info' = extracted_info
       /\ (/\ pc = "navigate"
           /\ Get(last_navigation_result', "status") \in {"NEED_INFO", "DECISION"}
           /\ "Start" \in Walked(last_navigation_result'))
            => \E r \in NavigationReadings(customer_data, extracted_info') :
                  \A k \in DOMAIN last_navigation_result' :
                     /\ k \in DOMAIN r
                     /\ last_navigation_result'[k] = r[k]]_vars

\* C9: the first turn's walk passed item_category = Physical and asked for
\* item_returnable; the second turn's extraction has replaced the category
\* by Digital.
C9_Witness ==
    /\ pc = "navigate"
    /\ extractor_reply.kind = "ok"
    /\ IsNeedInfo(last_navigation_result, "item_returnable")
    /\ "ItemCategory" \in Walked(last_navigation_result)
    /\ Get(extracted_info, "item_category") = "Digital"

\* C10 (SpecDecide).  When the three gates pass and item_category is absent
\* the navigation gives NEED_INFO for item_category whatever other slots
\* are stored: a stored item_returnable = No gives no RefundDenied5 before
\* the category is known.  Stated for the profiles with fraud_flag = No,
\* which pass the fraud gate whatever their tier.
C10_CategoryAskedFirst ==
    (/\ Evaluated
     /\ Gate1Passes(customer_data)
     /\ Get(customer_data, "fraud_flag") = "No"
     /\ Gate3Passes(customer_data)
     /\ "item_category" \notin DOMAIN extracted_info)
        => IsNeedInfo(last_navigation_result, "item_category")

\* The evaluation that gave the stored result walked node n.
Reached(n) == Evaluated /\ n \in Walked(last_navigation_result)

\* A store without the slots of keys.
Without(s, keys) == [k \in (DOMAIN s) \ keys |-> s[k]]

\* The stored result, and the reply under each reading, are those for the
\* store without the slots of keys: what these slots hold plays no part.
IndependentOf(keys) ==
    /\ \A reading \in {"steps", "immediate"} :
          PromptReply(customer_data, extracted_info, reading)
             = PromptReply(customer_data, Without(extracted_info, keys), reading)
    /\ \E reading \in {"steps", "immediate"} :
          last_navigation_result
             = PromptReply(customer_data, Without(extracted_info, keys), reading)

\* C11 (SpecDecide).  For a profile that passes the three gates,
\* item_category = Perishable gives the decision RefundDenied3 and Digital
\* gives RefundDenied4 whatever the other slots hold, with no node after
\* ItemCategory walked (item_returnable and the later slots are not asked).
C11_CategoryDenials ==
    (/\ Evaluated
     /\ Gate1Passes(customer_data)
     /\ Gate2Passes(customer_data)
     /\ Gate3Passes(customer_data)
     /\ Get(extracted_info, "item_category") \in {"Perishable", "Digital"})
        => /\ IsDecision(last_navigation_result,
                         IF extracted_info["item_category"] = "Perishable"
                         THEN "RefundDenied3" ELSE "RefundDenied4")
           /\ Walked(last_navigation_result)
                \cap (DOMAIN node_slot \ {"ItemCategory"}) = {}

LaterSlots ==
    {"delivered", "shipping_issue", "seller_type", "in_house_policy",
     "third_party_policy", "payment_method", "bnpl_policy", "gift_card_policy"}

SellerAndPaymentNodes ==
    {"SellerType", "InHousePolicy", "ThirdPartyPolicy", "PaymentMethod",
     "BNPLPolicy", "GiftCardPolicy"}

ScenarioA ==
    [k \in {"item_category", "item_returnable", "item_condition",
            "return_window", "delivered", "seller_type", "in_house_policy",
            "payment_method"} |->
        CASE k = "item_category" -> "Physical"
          [] k = "item_condition" -> "normal"
          [] k = "return_window" -> "within"
          [] k = "seller_type" -> "In-house"
          [] k = "payment_method" -> "CreditCard"
          [] OTHER -> "Yes"]

\* C16 (SpecWalk).  When the walk reaches the payment step, payment_method
\* CreditCard or Prepaid gives the decision RefundApproved with no further
\* node walked, and BNPL reads bnpl_policy (absent: NEED_INFO for it, No:
\* RefundDenied10, Yes: RefundApproved); and a store that holds the slots of
\* Scenario A gives RefundApproved for every profile that passes the three
\* gates.
C16_PaymentStep ==
    /\ Reached("PaymentMethod")
          => LET method == Get(extracted_info, "payment_method")
                 policy == Get(extracted_info, "bnpl_policy")
             IN  /\ method \in {"CreditCard", "Prepaid"}
                      => /\ IsDecision(last_navigation_result, "RefundApproved")
                         /\ Walked(last_navigation_result)
                              \cap {"BNPLPolicy", "GiftCardPolicy"} = {}
                 /\ (method = "BNPL" /\ policy = "MISSING")
                      => IsNeedInfo(last_navigation_result, "bnpl_policy")
                 /\ (method = "BNPL" /\ policy = "No")
                      => IsDecision(last_navigation_result, "RefundDenied10")
                 /\ (method = "BNPL" /\ policy = "Yes")
                      => IsDecision(last_navigation_result, "RefundApproved")
    /\ (/\ Evaluated
        /\ Gate1Passes(customer_data)
        /\ Gate2Passes(customer_data)
        /\ Gate3Passes(customer_data)
        /\ \A k \in DOMAIN ScenarioA : Get(extracted_info, k) = ScenarioA[k])
          => IsDecision(last_navigation_result, "RefundApproved")

C18_AuditPath ==
    (pc = "idle" /\ Get(turn_result, "status") = "DECISION")
        => LET path == turn_result.decision_path
           IN  /\ Len(path) > 0
               /\ path[1] \in {"Start", "CustStatus"}
               /\ path[Len(path)] = turn_result.decision
               /\ turn_result.reason # ""

\* C19 (Spec).  Once the navigation of a session has given a Decision, no
\* step changes the slot store except the reset that clears it.
C19_FrozenAfterDecision ==
    [][Get(last_navigation_result, "status") = "DECISION"
          => \/ extracted_info' = extracted_info
             \/ (conversation_history' = <<>> /\ extracted_info' = EmptyDict)]_vars

\* The status the session is in: ACTIVE (written "Start" by the engine)
\* before the first turn, then the one of the last turn's result.
SessionStatus ==
    IF conversation_history = <<>> THEN "Start"
    ELSE CASE Get(turn_result, "status") = "NEED_INFO" -> "NEED_INFO"
           [] Get(turn_result, "status") = "DECISION" -> "DECIDED"
           [] OTHER -> "ERROR"

\* C20 (Spec).  Between turns, the status reported by the session and the
\* final status of an export are the session status: ACTIVE on creation and
\* after reset, else NEED_INFO, DECIDED or ERROR as the last turn returned.
C20_StatusFollowsTurns ==
    pc = "idle"
        => /\ GetConversationStatus.current_state = SessionStatus
           /\ ExportConversation.final_state = SessionStatus

\* The fields of the engine as __init__ leaves them, with profile p.
NewSession(p) ==
    [customer_data |-> p, extracted_info |-> EmptyDict,
     conversation_history |-> <<>>, current_state |-> "Start",
     last_navigation_result |-> EmptyDict]

\* C21 (Spec).  A step between turns that is no profile load (a reset)
\* leaves the store empty, the history empty, the last navigation result
\* (and with it the last asked slot) cleared, the status "Start" and the
\* profile as it was: the engine's fields are those of a new engine with
\* the same profile; and a reset of a session in that state changes
\* nothing.
C21_Reset ==
    [][(pc = "idle" /\ pc' = "idle" /\ customer_data' = customer_data)
          => /\ extracted_info' = EmptyDict
             /\ conversation_history' = <<>>
             /\ Get(last_navigation_result', "missing_field") = "MISSING"
             /\ current_state' = "Start"
             /\ [customer_data |-> customer_data',
                 extracted_info |-> extracted_info',
                 conversation_history |-> conversation_history',
                 current_state |-> current_state',
                 last_navigation_result |-> last_navigation_result']
                  = NewSession(customer_data)
             /\ ([customer_data |-> customer_data,
                  extracted_info |-> extracted_info,
                  conversation_history |-> conversation_history,
                  current_state |-> current_state,
                  last_navigation_result |-> last_navigation_result]
                   = NewSession(customer_data)
                 => UNCHANGED vars)]_vars

\* C21: a session with a profile has been reset after a turn that asked for
\* a slot.
C21_Witness ==
    /\ pc = "idle"
    /\ conversation_history = <<>>
    /\ customer_data # EmptyDict
    /\ Get(turn_result, "status") = "NEED_INFO"
    /\ last_navigation_result = EmptyDict

\* C22 (Spec).  The gates are evaluated on the loaded profile: a Decision
\* of a gate is given only when customer_data fails that gate, whatever
\* the store holds.
C22_GatesReadProfile ==
    Evaluated
        => /\ IsDecision(last_navigation_result, "RefundDenied1")
                => Get(customer_data, "account_status") # "good_standing"
           /\ IsDecision(last_navigation_result, "RefundDenied2")
                => Get(customer_data, "fraud_flag") = "Yes"
           /\ IsDecision(last_navigation_result, "ManualReview")
                => Get(customer_data, "return_abuse") = "Yes"

\* C23 (Spec).  A turn waits once on each collaborator and in this order:
\* the extractor's answer is followed by the commit or the fallback, then
\* by the navigator call; the navigator's answer is followed by the phraser
\* call when it asks for a slot and by the return of the turn otherwise
\* (ERROR included); the phraser's answer is followed by the return.  No
\* step leaves the engine waiting on the collaborator it was waiting on,
\* and an utterance is taken only between turns.
C23_OneCallEach ==
    [][/\ pc \notin {"new", "idle"} => pc' # pc
       /\ (pc' # pc /\ pc # "new")
            => \/ pc = "idle" /\ pc' = "extract"
               \/ pc = "extract" /\ pc' = "navigate"
               \/ /\ pc = "navigate" /\ pc' = "question"
                  /\ Get(last_navigation_result', "status") = "NEED_INFO"
               \/ /\ pc = "navigate" /\ pc' = "idle"
                  /\ Get(last_navigation_result', "status") # "NEED_INFO"
               \/ pc = "question" /\ pc' = "idle"
       /\ Len(conversation_history') > Len(conversation_history)
            => pc = "idle" /\ pc' = "extract"]_vars

\* C23: a second turn has returned the generic question, the phraser
\* having failed.
C23_Witness ==
    /\ pc = "idle"
    /\ Len(conversation_history) = 2
    /\ Get(turn_result, "status") = "NEED_INFO"
    /\ turn_result.question.kind = "generic"

\* C24 (Spec).  The step that follows the extractor's answer always hands
\* over to the navigation and returns nothing itself.  After a failure
\* (exception, no JSON, JSON that is no object) it changes at most the slot
\* the last navigation result asked for; after a parsed object it changes
\* no slot the object does not name, so the keyword matcher has not run.
C24_ExtractorFailure ==
    [][pc = "extract"
          => /\ pc' = "navigate"
             /\ turn_result' = turn_result
             /\ extractor_reply.kind # "ok"
                  => \A k \in DOMAIN valid_keywords :
                        k # Get(last_navigation_result, "missing_field")
                            => Get(extracted_info', k) = Get(extracted_info, k)
             /\ extractor_reply.kind = "ok"
                  => \A k \in DOMAIN valid_keywords :
                        k \notin DOMAIN extractor_reply.new_info
                            => Get(extracted_info', k) = Get(extracted_info, k)]_vars

\* C24: the extractor has failed on the answer "Yes" to the question for
\* item_returnable and the keyword matcher has stored Yes.
C24_Witness ==
    /\ pc = "navigate"
    /\ extractor_reply.kind \in {"not_json", "not_object", "raise"}
    /\ Get(last_navigation_result, "missing_field") = "item_returnable"
    /\ conversation_history[Len(conversation_history)] = "Yes"
    /\ Get(extracted_info, "item_returnable") = "Yes"

\* The utterance of the turn and the field the last result asked for.
LastUtterance == conversation_history[Len(conversation_history)]
AskedField == Get(last_navigation_result, "missing_field")

\* The matcher has run on the utterance of this turn.
MatcherRan == pc = "navigate" /\ extractor_reply.kind # "ok"

\* C25 (SpecFallback).  After the matcher has run on a bare Yes or No: when
\* return_window was asked, Yes is stored as within and No as expired; when
\* one of the seven Yes/No slots was asked, Yes is stored as Yes and No as
\* No in that slot.
C25_BareAnswers ==
    MatcherRan
        => /\ (AskedField = "return_window" /\ LastUtterance \in {"Yes", "yes"})
                => Get(extracted_info, "return_window") = "within"
           /\ (AskedField = "return_window" /\ LastUtterance \in {"No", " no "})
                => Get(extracted_info, "return_window") = "expired"
           /\ (AskedField \in YesNoFields /\ LastUtterance \in {"Yes", "yes"})
                => Get(extracted_info, AskedField) = "Yes"
           /\ (AskedField \in YesNoFields /\ LastUtterance \in {"No", " no "})
                => Get(extracted_info, AskedField) = "No"

\* C25: the matcher has stored expired for a bare No to the question for
\* return_window.
C25_Witness ==
    /\ MatcherRan
    /\ AskedField = "return_window"
    /\ LastUtterance = "No"
    /\ Get(extracted_info, "return_window") = "expired"

\* C26 (SpecFallback).  After the matcher has run with shipping_issue asked:
\* an utterance mentioning lost is stored as Lost, one mentioning delayed as
\* Delayed, and "Neither", "none", "not lost", "not delayed" and "neither
\* lost nor delayed" as Neither.
C26_ShippingIssue ==
    (MatcherRan /\ AskedField = "shipping_issue")
        => /\ LastUtterance = "it was lost"
                => Get(extracted_info, "shipping_issue") = "Lost"
           /\ LastUtterance = "delayed"
                => Get(extracted_info, "shipping_issue") = "Delayed"
           /\ LastUtterance \in {"Neither", "none", "not lost", "not delayed",
                                 "neither lost nor delayed"}
                => Get(extracted_info, "shipping_issue") = "Neither"

\* C27 (Spec).  A turn returns status ERROR only from the navigator's
\* return and only when the navigation gave neither NEED_INFO nor DECISION;
\* that step keeps the store, the profile and the history.  In the turn
\* that follows a navigation error the navigation result is again what the
\* navigator gives for the profile and the store.
C27_ErrorRecoverable ==
    [][/\ (pc # "idle" /\ pc' = "idle" /\ Get(turn_result', "status") = "ERROR")
            => /\ pc = "navigate"
               /\ Get(last_navigation_result', "status") \notin {"NEED_INFO", "DECISION"}
               /\ extracted_info' = extracted_info
               /\ customer_data' = customer_data
               /\ conversation_history' = conversation_history
       /\ (pc = "navigate" /\ pc' # "navigate"
             /\ Get(last_navigation_result, "status") = "ERROR")
            => last_navigation_result' \in
                  {NavigateDecisionTreeWithLLM(customer_data, extracted_info, nav) :
                      nav \in NavigatorOutcomes}]_vars

\* C27: the first turn ended in a navigation error; the second utterance
\* has been taken and its extraction is done, with a slot in the store and
\* the profile as loaded, and the navigator is called.
C27_Witness ==
    /\ pc = "navigate"
    /\ Len(conversation_history) = 2
    /\ Get(last_navigation_result, "status") = "ERROR"
    /\ Get(turn_result, "status") = "ERROR"
    /\ Get(extracted_info, "item_category") = "Physical"
    /\ customer_data = DefaultProfile

\* C28 (Spec).  Whatever the collaborators gave, the turn has returned a
\* result whose status is NEED_INFO, DECISION or ERROR.
C28_TurnAlwaysReturns ==
    (pc = "idle" /\ turn_result # EmptyDict)
        => Get(turn_result, "status") \in {"NEED_INFO", "DECISION", "ERROR"}

\* C29 (Spec).  A NeedInfo result whose question is the engine's own text
\* (the phraser failed, or its text did not name the field) lists every
\* valid value of the missing slot.
C29_QuestionListsValues ==
    (/\ pc = "idle"
     /\ Get(turn_result, "status") = "NEED_INFO"
     /\ turn_result.question.kind \in {"fallback", "generic"}
     /\ turn_result.missing_field \in DOMAIN valid_keywords)
        => QuestionValues(turn_result.question)
              = valid_keywords[turn_result.missing_field]

\* C30 (Spec).  Once load_customer_data has returned, the profile is a
\* profile of a customer file or the default profile.
C30_ProfileAfterLoad ==
    pc # "new" => customer_data \in CustomerFiles \cup {DefaultProfile}

\* The slot domain table of the specification (section 6).
C34_SlotTable ==
    [k \in {"account_status", "loyalty_tier", "fraud_flag", "return_abuse",
            "item_category", "item_returnable", "item_condition",
            "return_window", "late_return_eligible", "delivered",
            "shipping_issue", "seller_type", "in_house_policy",
            "third_party_policy", "payment_method", "bnpl_policy",
            "gift_card_policy"} |->
        CASE k = "account_status" -> {"good_standing", "not_good_standing"}
          [] k = "loyalty_tier" -> {"Bronze", "Silver", "Gold"}
          [] k = "item_category" -> {"Perishable", "Digital", "Physical"}
          [] k = "item_condition" -> {"damaged", "defective", "normal"}
          [] k = "return_window" -> {"within", "expired"}
          [] k = "shipping_issue" -> {"Lost", "Delayed", "Neither"}
          [] k = "seller_type" -> {"In-house", "Third-party"}
          [] k = "payment_method" -> {"BNPL", "CreditCard", "Prepaid", "GiftCard"}
          [] OTHER -> {"Yes", "No"}]

\* C34 (SpecDecide).  The registry that validates the writes is the slot
\* domain table: every slot of the registry is a slot of the table with the
\* table's values, every slot of the table is in the registry, and no value
\* is stored under a name outside the table.
C34_RegistryIsTable ==
    /\ DOMAIN valid_keywords = DOMAIN C34_SlotTable
    /\ \A k \in DOMAIN valid_keywords \cap DOMAIN C34_SlotTable :
            valid_keywords[k] = C34_SlotTable[k]
    /\ DOMAIN extracted_info \subseteq DOMAIN C34_SlotTable

\* C37 (SpecFallback).  After the matcher has run with a Yes/No slot asked,
\* an utterance holding one of the keywords listed for No ("ineligible",
\* "not eligible", "not correct", "not right", "nope", "wrong", a bare No)
\* is stored as No in that slot.
C37_NegativeKeywords ==
    (/\ MatcherRan
     /\ AskedField \in YesNoFields
     /\ LastUtterance \in {"ineligible", "not eligible", "not correct",
                           "not right", "nope", "wrong", "No", " no "})
        => Get(extracted_info, AskedField) = "No"

\* The turns that have returned since the construction or the last reset.
TurnsReturned ==
    IF pc = "idle" THEN Len(conversation_history)
    ELSE Len(conversation_history) - 1

\* C39 (Spec).  Between two turns and while the extraction of a turn runs,
\* the slot the extractor and the matcher are given as last asked (the
\* missing_field of the stored navigation result) is the slot of the
\* question the turn before returned; no slot is given when no turn has
\* returned since the construction or the last reset, and none after a turn
\* that returned a decision or an error, whatever was asked before it.
C39_LastAskedSlot ==
    pc \in {"idle", "extract"}
        => IF TurnsReturned = 0
           THEN "missing_field" \notin DOMAIN last_navigation_result
           ELSE /\ Get(turn_result, "status") = "NEED_INFO"
                    => AskedField = turn_result.missing_field
                /\ Get(turn_result, "status") \in {"DECISION", "ERROR"}
                    => "missing_field" \notin DOMAIN last_navigation_result

\* C39: the second turn's extraction runs with item_category, the slot the
\* first turn's question named, as the last asked slot.
C39_Witness ==
    /\ pc = "extract"
    /\ Len(conversation_history) = 2
    /\ Get(turn_result, "status") = "NEED_INFO"
    /\ turn_result.missing_field = "item_category"
    /\ AskedField = "item_category"

\* C36 (SpecFallback).  With the extractor failing on every turn of a
\* session whose profile passes the gates: the extraction step leaves every
\* slot other than the last asked slot as it was, writes nothing when no
\* slot was asked, and nothing when item_category or item_condition was
\* asked; and every turn returns the question for item_category (or an
\* error), never a decision and never the question for a later slot.
C36_FallbackFrame ==
    [][/\ (pc = "extract" /\ pc' = "navigate")
            => /\ \A k \in (DOMAIN extracted_info \cup DOMAIN extracted_info')
                                \ {AskedField} :
                      /\ k \in DOMAIN extracted_info
                      /\ k \in DOMAIN extracted_info'
                      /\ extracted_info'[k] = extracted_info[k]
               /\ AskedField \in {"MISSING", "item_category", "item_condition"}
                      => extracted_info' = extracted_info
       /\ (pc # "idle" /\ pc' = "idle")
            => \/ Get(turn_result', "status") = "ERROR"
               \/ IsNeedInfo(turn_result', "item_category")]_vars

\* C38 (Spec).  Bounded dialogue, stated on the navigation of each turn of a
\* session with a loaded profile in which the slot asked by the turn before
\* (if any) holds a value: when the profile passes the three gates, a
\* question is at most the ninth of the conversation and names a slot that
\* holds no value; when the profile fails a gate, the first turn's
\* navigation gives a decision.
C38_BoundedDialogue ==
    [][(/\ pc = "navigate" /\ pc' # "navigate"
        /\ customer_data \in Profiles
        /\ AskedField \in {"MISSING"} \cup DOMAIN extracted_info)
          => IF /\ Gate1Passes(customer_data)
                /\ Gate2Passes(customer_data)
                /\ Gate3Passes(customer_data)
             THEN Get(last_navigation_result', "status") = "NEED_INFO"
                    => /\ Len(conversation_history) <= 9
                       /\ Get(last_navigation_result', "missing_field")
                             \notin DOMAIN extracted_info
             ELSE Len(conversation_history) = 1
                    => Get(last_navigation_result', "status") = "DECISION"]_vars

\* C31 (SpecManager).  A step in which export_conversation returns, with
\* the file written or not, leaves the profile, the store, the history, the
\* last navigation result (and with it the last asked slot), the state and
\* the last turn's result as they were, and no turn is started or ended by
\* it; what it returns is the file name or, on failure, None: never an
\* exception.
C31_ExportFrame ==
    [][export_returned' # export_returned
          => /\ UNCHANGED <<customer_data, extracted_info, conversation_history,
                            current_state, last_navigation_result, turn_result,
                            pc, extractor_reply>>
             /\ export_returned' \in {"filename", "None"}]_vars

\* C31: the last export failed and returned None, and the session has gone
\* on: the second turn of the conversation is under way with the category
\* of the first turn still stored.
C31_Witness ==
    /\ export_returned = "None"
    /\ pc = "extract"
    /\ Len(conversation_history) = 2
    /\ Get(extracted_info, "item_category") = "Physical"

RunningEngine ==
    [customer_data |-> customer_data, extracted_info |-> extracted_info,
     conversation_history |-> conversation_history,
     current_state |-> current_state,
     last_navigation_result |-> last_navigation_result,
     turn_result |-> turn_result, pc |-> pc,
     extractor_reply |-> extractor_reply, export_returned |-> export_returned]

\* C33 (SpecSessions).  Isolation of two engines whose calls are
\* interleaved: a step of the running engine (a load, a turn, a reset, an
\* export) leaves the other engine as it is and is a step the engine takes
\* when it runs alone; and when the caller turns to the other engine, that
\* engine has the profile, store, history, last result and turn result its
\* own last call left.
C33_SessionIsolation ==
    [][IF other'.engine = other.engine
       THEN /\ other' = other
            /\ \/ Next
               \/ \E outcome \in {"written", "error"} :
                      ExportConversationReturns(outcome)
       ELSE \A f \in DOMAIN RunningEngine : RunningEngine'[f] = other[f]]_vars

\* C33: engine 1 has a decision for a digital item and one stored slot,
\* engine 2 runs its first turn with a store of its own.
C33_Witness ==
    /\ other.engine = 1
    /\ IsDecision(other.turn_result, "RefundDenied4")
    /\ Get(other.extracted_info, "item_category") = "Digital"
    /\ pc = "navigate"
    /\ Len(conversation_history) = 1
    /\ Get(extracted_info, "item_category") = "Physical"
    /\ customer_data # other.customer_data

====
